---- MODULE Spec2Model ----
(***************************************************************************)
(* Model of the OAuth authentication worker                                *)
(* (src/workers/auth-worker/src/index.ts).                                 *)
(*                                                                         *)
(* The worker is a stateless request handler in front of one key-value     *)
(* store (env.TOKENS) and one upstream token endpoint.  A handler runs     *)
(* from one await on shared state to the next without interruption, so an  *)
(* action of the model is one such segment: the synchronous code up to and *)
(* including the store operation it awaits, or up to the upstream fetch    *)
(* that it sends; the upstream answer starts the next segment.             *)
(*                                                                         *)
(* Time is counted in seconds.  Date.now() is the reading of that clock.   *)
(***************************************************************************)
EXTENDS Integers, Sequences, FiniteSets, Bags, TLC

VARIABLES
    store,      \* env.TOKENS: key -> [value, expiration]
    now,        \* the clock, in seconds
    ticks,      \* number of clock advances so far
    uuids,      \* number of identifiers crypto.randomUUID() has returned
    inflight,   \* the bag of handlers suspended on their upstream fetch
    last,       \* the exchange that completed last: request, response, effects
    issued,     \* session id -> the time a Set-Cookie sent it to a browser
    revoked     \* [id, by]: session ids named, while their record was in the
                \* store, by a logout or by a refresh that the upstream
                \* answered with invalid_grant

vars == <<store, now, ticks, uuids, inflight, last, issued, revoked>>

----------------------------------------------------------------------------
(* Bounds of the model *)

MaxSessions == 2          \* identifiers crypto.randomUUID() may hand out
MaxInflight == 2          \* handlers suspended on the upstream at one time
MaxTicks == 2             \* clock advances

----------------------------------------------------------------------------
(* Values *)

NULL == "<null>"          \* JavaScript null / undefined / absent header

Truthy(s) == s # NULL /\ s # ""

SessionNames == <<"s1", "s2", "s3", "s4">>
BogusId == "s0"           \* a cookie value that was never generated

SecondsPerDay == 60 * 60 * 24
\* The clock advances by these numbers of days, in this order.
TickPlan == <<29, 2, 29, 2, 29, 2>>

GOOGLE_SCOPES == "https://www.googleapis.com/auth/drive.appdata"
SESSION_MAX_AGE == 60 * 60 * 24 * 30

AuthEndpoint == "https://accounts.google.com/o/oauth2/v2/auth"
TokenEndpoint == "https://oauth2.googleapis.com/token"
WorkerOrigin == "https://auth.example"
RedirectUri == "https://auth.example/auth/callback"     \* `${url.origin}/auth/callback`

\* env.ALLOWED_ORIGINS split at ',': the second entry keeps the blank that
\* follows the comma until getAllowedOrigins trims it.
ENV_ALLOWED_ORIGINS == <<"https://app.example", " https://alt.example">>
ENV_GOOGLE_CLIENT_ID == "client-id"

EvilOrigin == "https://evil.example"

Trim(s) == IF s = " https://alt.example" THEN "https://alt.example" ELSE s

getAllowedOrigins == [i \in DOMAIN ENV_ALLOWED_ORIGINS |-> Trim(ENV_ALLOWED_ORIGINS[i])]

Includes(seq, x) == \E i \in DOMAIN seq : seq[i] = x

\* new URL(s): throws on a string that is no URL; .origin drops the path.
MalformedUrl == "not a url"
UrlParses(s) == s # MalformedUrl
UrlOrigin(s) ==
    CASE s = "https://alt.example/page" -> "https://alt.example"
      [] s = "https://evil.example/page" -> "https://evil.example"
      [] OTHER -> s

encodeURIComponent(s) == IF s = "Bad Request" THEN "Bad%20Request" ELSE s

\* The provider mints a new refresh token at each exchange of a code.
RefreshTokenNames == <<"rt-A", "rt-B", "rt-C", "rt-D">>
RefreshTokens == {RefreshTokenNames[i] : i \in DOMAIN RefreshTokenNames}
AccessTokens == {"at-X"}

----------------------------------------------------------------------------
(* Requests and responses *)

\* A header or body part that may be absent is a sequence of length 0 or 1.
None == <<>>
Some(x) == <<x>>

NoHeaders ==
    [Location |-> None, SetCookie |-> None,
     AccessControlAllowOrigin |-> None, AccessControlAllowCredentials |-> None,
     AccessControlAllowMethods |-> None, AccessControlAllowHeaders |-> None,
     ContentType |-> None]

\* new Response(body, {status, headers})
Response(body, status, headers) ==
    [type |-> "response", status |-> status, body |-> body, headers |-> headers]

\* Response.redirect(url, 302): a Location header and nothing else
ResponseRedirect(url, status) ==
    Response(None, status, [NoHeaders EXCEPT !.Location = Some(url)])

\* The handler's promise rejected (or fetch threw): the worker produced no Response.
Rejected == [type |-> "rejected", status |-> 0, body |-> None, headers |-> NoHeaders]

Url(base, query) == [base |-> base, query |-> query]

\* The Origin and Referer headers of a request
Headers(origin, referer) == [origin |-> origin, referer |-> referer]

\* request.headers.get('Cookie') is modelled as the list of its name=value
\* pairs, joined by "; " in the header.  The expression /session=([^;]+)/ is
\* not anchored: it matches the first place where "session=" is followed by
\* at least one character other than ';', so a pair with an empty value is
\* skipped and a name that merely ends in "session" matches too.
EndsWithSession(name) == name \in {"session", "xsession"}

RECURSIVE FirstSessionMatch(_, _)
FirstSessionMatch(cookie, i) ==
    IF i > Len(cookie) THEN NULL
    ELSE IF EndsWithSession(cookie[i][1]) /\ cookie[i][2] # ""
         THEN cookie[i][2]
         ELSE FirstSessionMatch(cookie, i + 1)

getSessionId(request) == FirstSessionMatch(request.cookie, 1)

buildSessionCookie(sessionId, maxAge) ==
    [name |-> "session", value |-> sessionId, HttpOnly |-> TRUE, Secure |-> TRUE,
     SameSite |-> "None", MaxAge |-> maxAge, Path |-> "/"]

\* The result of a call that may throw.
Ok(v) == [threw |-> FALSE, value |-> v]
Threw == [threw |-> TRUE, value |-> NULL]

\* getRequestOrigin trusting whatever Origin header the request carries
getRequestOrigin_echoesOrigin(request) ==
    LET origin == request.origin
        allowedOrigins == getAllowedOrigins
        referer == request.referer
    IN  IF Truthy(origin)
        THEN Ok(origin)
        ELSE IF Truthy(referer)
             THEN IF ~UrlParses(referer)
                  THEN Threw
                  ELSE IF Includes(allowedOrigins, UrlOrigin(referer))
                       THEN Ok(UrlOrigin(referer))
                       ELSE Ok(allowedOrigins[1])
             ELSE Ok(allowedOrigins[1])

getRequestOrigin(request) ==
    LET origin == request.origin
        allowedOrigins == getAllowedOrigins
        referer == request.referer
    IN  IF Truthy(origin) /\ Includes(allowedOrigins, origin)
        THEN Ok(origin)
        ELSE IF Truthy(referer)
             THEN IF ~UrlParses(referer)
                  THEN Threw
                  ELSE IF Includes(allowedOrigins, UrlOrigin(referer))
                       THEN Ok(UrlOrigin(referer))
                       ELSE Ok(allowedOrigins[1])
             ELSE Ok(allowedOrigins[1])

\* corsResponse(request, env, status, body?, extraHeaders?); extraHeaders is
\* None or Some(cookie), the only extra header the worker passes.
corsResponse(request, status, body, setCookie) ==
    LET origin == getRequestOrigin(request)
    IN  IF origin.threw
        THEN Threw
        ELSE Ok(Response(body, status,
                [Location |-> None,
                 SetCookie |-> setCookie,
                 AccessControlAllowOrigin |-> Some(origin.value),
                 AccessControlAllowCredentials |-> Some("true"),
                 AccessControlAllowMethods |-> Some("GET, POST, OPTIONS"),
                 AccessControlAllowHeaders |-> Some("Content-Type"),
                 ContentType |-> Some("application/json")]))

----------------------------------------------------------------------------
(* The key-value store env.TOKENS *)

KVget(kv, key, t) ==
    IF key \in DOMAIN kv /\ t < kv[key].expiration THEN Some(kv[key].value) ELSE None

KVput(kv, key, value, expirationTtl, t) ==
    [k \in DOMAIN kv \cup {key} |->
        IF k = key THEN [value |-> value, expiration |-> t + expirationTtl] ELSE kv[k]]

KVdelete(kv, key) == [k \in DOMAIN kv \ {key} |-> kv[k]]

\* The store drops a key when its expiration time is reached.
KVexpire(kv, t) == [k \in {x \in DOMAIN kv : t < kv[x].expiration} |-> kv[k]]

\* JSON.stringify / JSON.parse of a TokenData
JSONstringify(tokenData) ==
    <<"refresh_token", tokenData.refresh_token, "created", tokenData.created>>
JSONparse(text) == [refresh_token |-> text[2], created |-> text[4]]

----------------------------------------------------------------------------
(* The upstream token endpoint *)

\* What `await fetch(TokenEndpoint, ...)` followed by `await tokenResponse.json()`
\* yields: a GoogleTokenResponse, or an exception (the connection failed or the
\* body is not JSON).
Answer(error, description, access, refresh) ==
    [threw |-> FALSE, error |-> error, error_description |-> description,
     access_token |-> access, expires_in |-> 3599, refresh_token |-> refresh,
     token_type |-> "Bearer"]

AnswerThrew ==
    [threw |-> TRUE, error |-> NULL, error_description |-> NULL,
     access_token |-> NULL, expires_in |-> 0, refresh_token |-> NULL,
     token_type |-> NULL]

ErrorAnswers ==
    {Answer("invalid_grant", "Bad Request", NULL, NULL),
     Answer("invalid_grant", NULL, NULL, NULL),
     Answer("temporarily_unavailable", NULL, NULL, NULL)}

\* Answers to grant_type=authorization_code: the refresh token may be omitted.
CodeAnswers ==
    {AnswerThrew} \cup ErrorAnswers
    \cup {Answer(NULL, NULL, a, r) : a \in AccessTokens, r \in RefreshTokens \cup {NULL}}

\* Answers to grant_type=refresh_token
RefreshAnswers ==
    {AnswerThrew} \cup ErrorAnswers
    \cup {Answer(NULL, NULL, a, NULL) : a \in AccessTokens}

\* The answers the endpoint can give to a call
AnswersTo(sent) ==
    IF sent.grant_type = "authorization_code" THEN CodeAnswers ELSE RefreshAnswers

----------------------------------------------------------------------------
(* Handlers.  A segment of a handler returns what it did: the response, if *)
(* the handler finished, or the continuation suspended on the upstream     *)
(* fetch; and the store as the segment leaves it.                          *)

Done(resp, kv) == [resp |-> Some(resp), cont |-> None, store |-> kv]
Suspend(cont, kv) == [resp |-> None, cont |-> Some(cont), store |-> kv]

\* An async handler's promise: a throw inside it rejects the promise.  fetch()
\* returns that promise from its try block without awaiting it, so its catch
\* clause never sees the rejection.
Settle(r) == IF r.threw THEN Rejected ELSE r.value

\* A handler suspended on the upstream fetch: the variables the rest of the
\* handler reads.  Of the request these are the Origin and Referer headers
\* (corsResponse reads nothing else); handleCallback reads none of it.  The
\* state parameter is kept beside the redirect origin computed from it.
Cont(fn, headers, sessionId, state, redirectOrigin, sent) ==
    [fn |-> fn, request |-> headers, sessionId |-> sessionId,
     state |-> state, redirectOrigin |-> redirectOrigin, sent |-> sent]

handleLogin(request) ==
    LET originParam == request.q_origin
        allowedOrigins == getAllowedOrigins
        origin == IF Truthy(originParam) /\ Includes(allowedOrigins, originParam)
                  THEN Ok(originParam)
                  ELSE getRequestOrigin(request)
    IN  IF origin.threw
        THEN Threw
        ELSE Ok(ResponseRedirect(
                Url(AuthEndpoint,
                    << <<"client_id", ENV_GOOGLE_CLIENT_ID>>,
                       <<"redirect_uri", RedirectUri>>,
                       <<"response_type", "code">>,
                       <<"scope", GOOGLE_SCOPES>>,
                       <<"access_type", "offline">>,
                       <<"prompt", "consent">>,
                       <<"state", origin.value>> >>),
                302))

\* callbackRedirectOrigin taking any state it is given
callbackRedirectOrigin_trustsState(request) ==
    LET state == request.q_state
        allowedOrigins == getAllowedOrigins
    IN  IF Truthy(state) THEN state ELSE allowedOrigins[1]

callbackRedirectOrigin(request) ==
    LET state == request.q_state
        allowedOrigins == getAllowedOrigins
    IN  IF Truthy(state) /\ Includes(allowedOrigins, state) THEN state ELSE allowedOrigins[1]

\* handleCallback up to the fetch of the token endpoint
handleCallback(request, kv) ==
    LET code == request.q_code
        error == request.q_error
        redirectOrigin == callbackRedirectOrigin(request)
    IN  IF Truthy(error)
        THEN Done(ResponseRedirect(
                Url(redirectOrigin,
                    << <<"auth", "error">>, <<"message", encodeURIComponent(error)>> >>),
                302), kv)
        ELSE IF ~Truthy(code)
        THEN Done(ResponseRedirect(
                Url(redirectOrigin, << <<"auth", "error">>, <<"message", "no_code">> >>),
                302), kv)
        ELSE Suspend(Cont("handleCallback", Headers(NULL, NULL), NULL, request.q_state, redirectOrigin,
                          [grant_type |-> "authorization_code", credential |-> code]), kv)

\* createSession storing the access token in place of the refresh token
createSession_storesAccessToken(redirectOrigin, tokens, kv, t, sessionId) ==
    LET tokenData == [refresh_token |-> tokens.access_token, created |-> t]
    IN  Done(Response(None, 302,
                [NoHeaders EXCEPT
                    !.Location = Some(Url(redirectOrigin, << <<"auth", "success">> >>)),
                    !.SetCookie = Some(buildSessionCookie(sessionId, SESSION_MAX_AGE))]),
             KVput(kv, sessionId, JSONstringify(tokenData), SESSION_MAX_AGE, t))

\* createSession handing the session id to the app in the redirect URL
createSession_idInUrl(redirectOrigin, tokens, kv, t, sessionId) ==
    LET tokenData == [refresh_token |-> tokens.refresh_token, created |-> t]
    IN  Done(Response(None, 302,
                [NoHeaders EXCEPT
                    !.Location = Some(Url(redirectOrigin,
                                          << <<"auth", "success">>, <<"session", sessionId>> >>)),
                    !.SetCookie = Some(buildSessionCookie(sessionId, SESSION_MAX_AGE))]),
             KVput(kv, sessionId, JSONstringify(tokenData), SESSION_MAX_AGE, t))

\* The end of handleCallback: the record is stored under the new session id
\* and the browser is sent back to the app with the session cookie.
createSession(redirectOrigin, tokens, kv, t, sessionId) ==
    LET tokenData == [refresh_token |-> tokens.refresh_token, created |-> t]
    IN  Done(Response(None, 302,
                [NoHeaders EXCEPT
                    !.Location = Some(Url(redirectOrigin, << <<"auth", "success">> >>)),
                    !.SetCookie = Some(buildSessionCookie(sessionId, SESSION_MAX_AGE))]),
             KVput(kv, sessionId, JSONstringify(tokenData), SESSION_MAX_AGE, t))

\* handleCallback from the upstream answer on; sessionId is crypto.randomUUID()
handleCallbackResume(cont, tokens, kv, t, sessionId) ==
    LET redirectOrigin == cont.redirectOrigin
    IN  IF tokens.threw
        THEN Done(Rejected, kv)
        ELSE IF Truthy(tokens.error)
        THEN Done(ResponseRedirect(
                Url(redirectOrigin,
                    << <<"auth", "error">>,
                       <<"message", encodeURIComponent(
                            IF Truthy(tokens.error_description)
                            THEN tokens.error_description ELSE tokens.error)>> >>),
                302), kv)
        ELSE IF ~Truthy(tokens.refresh_token)
        THEN Done(ResponseRedirect(
                Url(redirectOrigin,
                    << <<"auth", "error">>, <<"message", "no_refresh_token">> >>),
                302), kv)
        ELSE createSession(redirectOrigin, tokens, kv, t, sessionId)

\* handleToken up to the fetch of the token endpoint
handleToken(request, kv, t) ==
    LET sessionId == getSessionId(request)
        stored == KVget(kv, sessionId, t)
    IN  IF ~Truthy(sessionId)
        THEN Done(Settle(corsResponse(request, 401,
                Some([error |-> "Not authenticated", code |-> "NO_SESSION"]), None)), kv)
        ELSE IF stored = None
        THEN Done(Settle(corsResponse(request, 401,
                Some([error |-> "Session expired", code |-> "SESSION_EXPIRED"]), None)), kv)
        ELSE LET tokenData == JSONparse(stored[1])
             IN  Suspend(Cont("handleToken", Headers(request.origin, request.referer),
                              sessionId, NULL, NULL,
                              [grant_type |-> "refresh_token",
                               credential |-> tokenData.refresh_token]), kv)

\* refreshError dropping the session on every upstream error
refreshError_deletesAlways(request, sessionId, tokens, kv) ==
    IF tokens.error = "invalid_grant"
    THEN Done(Settle(corsResponse(request, 401,
                Some([error |-> "Session invalidated", code |-> "REFRESH_FAILED"]),
                Some(buildSessionCookie("", 0)))),
              KVdelete(kv, sessionId))
    ELSE Done(Settle(corsResponse(request, 500,
                Some([error |-> "Token refresh failed", code |-> "REFRESH_ERROR"]),
                None)),
              KVdelete(kv, sessionId))

\* handleToken when the upstream answers the refresh with an error
refreshError(request, sessionId, tokens, kv) ==
    IF tokens.error = "invalid_grant"
    THEN Done(Settle(corsResponse(request, 401,
                Some([error |-> "Session invalidated", code |-> "REFRESH_FAILED"]),
                Some(buildSessionCookie("", 0)))),
              KVdelete(kv, sessionId))
    ELSE Done(Settle(corsResponse(request, 500,
                Some([error |-> "Token refresh failed", code |-> "REFRESH_ERROR"]),
                None)), kv)

\* handleToken from the upstream answer on
handleTokenResume(cont, tokens, kv) ==
    LET request == cont.request
        sessionId == cont.sessionId
    IN  IF tokens.threw
        THEN Done(Rejected, kv)
        ELSE IF Truthy(tokens.error)
        THEN refreshError(request, sessionId, tokens, kv)
        ELSE Done(Settle(corsResponse(request, 200,
                    Some([access_token |-> tokens.access_token,
                          expires_in |-> tokens.expires_in]), None)), kv)

handleLogout(request, kv) ==
    LET sessionId == getSessionId(request)
    IN  Done(Settle(corsResponse(request, 200, Some([success |-> TRUE]),
                                 Some(buildSessionCookie("", 0)))),
             IF Truthy(sessionId) THEN KVdelete(kv, sessionId) ELSE kv)

\* handleStatus writing the record back with a fresh TTL (sliding expiry)
handleStatus_renews(request, kv, t) ==
    LET sessionId == getSessionId(request)
        stored == KVget(kv, sessionId, t)
    IN  IF ~Truthy(sessionId)
        THEN Done(Settle(corsResponse(request, 200, Some([authenticated |-> FALSE]), None)), kv)
        ELSE IF stored = None
        THEN Done(Settle(corsResponse(request, 200, Some([authenticated |-> FALSE]), None)), kv)
        ELSE LET tokenData == JSONparse(stored[1])
             IN  Done(Settle(corsResponse(request, 200,
                        Some([authenticated |-> TRUE, sessionCreated |-> tokenData.created]),
                        None)),
                      KVput(kv, sessionId, stored[1], SESSION_MAX_AGE, t))

handleStatus(request, kv, t) ==
    LET sessionId == getSessionId(request)
        stored == KVget(kv, sessionId, t)
    IN  IF ~Truthy(sessionId)
        THEN Done(Settle(corsResponse(request, 200, Some([authenticated |-> FALSE]), None)), kv)
        ELSE IF stored = None
        THEN Done(Settle(corsResponse(request, 200, Some([authenticated |-> FALSE]), None)), kv)
        ELSE LET tokenData == JSONparse(stored[1])
             IN  Done(Settle(corsResponse(request, 200,
                        Some([authenticated |-> TRUE, sessionCreated |-> tokenData.created]),
                        None)), kv)

\* export default { fetch }: the preflight answer, then the routing inside try
fetch(request, kv, t) ==
    IF request.method = "OPTIONS"
    THEN Done(Settle(corsResponse(request, 204, None, None)), kv)
    ELSE CASE request.path = "/auth/login" ->
                LET r == handleLogin(request)
                IN  IF r.threw
                    THEN Done(Settle(corsResponse(request, 500,
                                Some([error |-> "Internal server error"]), None)), kv)
                    ELSE Done(r.value, kv)
           [] request.path = "/auth/callback" -> handleCallback(request, kv)
           [] request.path = "/auth/token" -> handleToken(request, kv, t)
           [] request.path = "/auth/logout" -> handleLogout(request, kv)
           [] request.path = "/auth/status" -> handleStatus(request, kv, t)
           [] OTHER -> Done(Response(Some([text |-> "Not found"]), 404, NoHeaders), kv)

\* The continuation of a suspended handler
resume(cont, tokens, kv, t, uuid) ==
    IF cont.fn = "handleCallback"
    THEN handleCallbackResume(cont, tokens, kv, t, uuid)
    ELSE handleTokenResume(cont, tokens, kv)

----------------------------------------------------------------------------
(* The requests the worker is sent *)

Request(method, path, headers, cookie, q_origin, q_code, q_error, q_state) ==
    [method |-> method, path |-> path,
     origin |-> headers.origin, referer |-> headers.referer, cookie |-> cookie,
     q_origin |-> q_origin, q_code |-> q_code, q_error |-> q_error, q_state |-> q_state]

\* Origin and Referer headers: one case for each path through getRequestOrigin
HeaderCases ==
    {Headers(NULL, NULL),
     Headers("https://alt.example", NULL),
     Headers(EvilOrigin, NULL),
     Headers(NULL, "https://alt.example/page"),
     Headers(NULL, "https://evil.example/page"),
     Headers("https://alt.example", MalformedUrl),
     Headers(EvilOrigin, MalformedUrl)}

\* The preflight requests: every path through getRequestOrigin on the path
\* of an endpoint, and the Referer taken after an Origin that is not allowed;
\* fewer cases on a path that is no endpoint, since corsResponse does not
\* read the path.
PreflightCases ==
    ({"/auth/token"} \X (HeaderCases \cup {Headers(EvilOrigin, "https://alt.example/page")}))
    \cup ({"/other"} \X {Headers("https://alt.example", NULL), Headers(EvilOrigin, MalformedUrl)})

Generated == {SessionNames[i] : i \in 1..uuids}

\* A client can send any identifier it has seen, and values of its own making.
CookieValues == Generated \cup {BogusId}

Cookies ==
    {<<>>, << <<"session", "">> >>}
    \cup {<< <<"session", v>> >> : v \in CookieValues}
    \cup {<< <<"other", "x">>, <<"session", v>> >> : v \in CookieValues}
    \cup {<< <<"xsession", v>> >> : v \in CookieValues}
    \cup {<< <<"xsession", v>>, <<"session", BogusId>> >> : v \in Generated}

\* Headers of the requests to a path that is no endpoint
SessionHeaderCases ==
    {Headers(NULL, NULL), Headers("https://alt.example", NULL), Headers(EvilOrigin, MalformedUrl)}

\* Headers of the requests to the endpoints that read the session cookie:
\* corsResponse builds their response from them, at once or after the upstream
\* has answered
TokenHeaderCases ==
    {Headers("https://alt.example", NULL), Headers(EvilOrigin, MalformedUrl)}

OriginParams == {NULL, "https://alt.example", EvilOrigin}
CodeParams == {NULL, "", "code-1"}
ErrorParams == {NULL, "", "access_denied"}
StateParams == {NULL, "https://alt.example", EvilOrigin}

----------------------------------------------------------------------------
(* The state machine *)

\* What an observer of one exchange sees: the request (the whole of it when
\* the exchange took one segment), the response, and the upstream call.
Exchange(endpoint, request, headers, sessionId, state, response, sent, answer) ==
    [endpoint |-> endpoint, request |-> request, headers |-> headers,
     sessionId |-> sessionId, state |-> state,
     response |-> response, sent |-> sent, answer |-> answer]

\* The session id a response hands to the browser
CookieIssued(response) ==
    IF response.headers.SetCookie # None /\ response.headers.SetCookie[1].value # ""
    THEN {response.headers.SetCookie[1].value}
    ELSE {}

\* `issued` after a response went out at time t
Issue(response, t) ==
    [k \in DOMAIN issued \cup CookieIssued(response) |->
        IF k \in DOMAIN issued THEN issued[k] ELSE t]

\* The routing of fetch(): the name of the handler that takes the request
Endpoint(request) ==
    IF request.method = "OPTIONS" THEN "OPTIONS" ELSE request.path

Init ==
    /\ store = [k \in {} |-> NULL]
    /\ now = 0
    /\ ticks = 0
    /\ uuids = 0
    /\ inflight = EmptyBag
    /\ last = None
    /\ issued = [k \in {} |-> 0]
    /\ revoked = {}

\* A request arrives and its handler runs up to its response, or up to the
\* upstream call it waits for.
Receive(request) ==
    /\ last = None
    /\ LET r == fetch(request, store, now)
       IN  /\ store' = r.store
           /\ revoked' = IF /\ Endpoint(request) = "/auth/logout"
                            /\ getSessionId(request) \in DOMAIN store
                         THEN revoked \cup {[id |-> getSessionId(request), by |-> "logout"]}
                         ELSE revoked
           /\ IF r.cont = None
              THEN /\ last' = Some(Exchange(Endpoint(request), Some(request),
                                    Headers(request.origin, request.referer),
                                    getSessionId(request), request.q_state,
                                    r.resp[1], None, None))
                   /\ issued' = Issue(r.resp[1], now)
                   /\ UNCHANGED inflight
              ELSE /\ BagCardinality(inflight) < MaxInflight
                   /\ inflight' = inflight (+) SetToBag({r.cont[1]})
                   /\ UNCHANGED <<last, issued>>
    /\ UNCHANGED <<now, ticks, uuids>>

Preflight(path, headers) ==
    Receive(Request("OPTIONS", path, headers, <<>>, NULL, NULL, NULL, NULL))

Login(headers, originParam) ==
    Receive(Request("GET", "/auth/login", headers, <<>>, originParam, NULL, NULL, NULL))

Callback(code, error, state) ==
    Receive(Request("GET", "/auth/callback", Headers(NULL, NULL), <<>>, NULL, code, error, state))

Token(headers, cookie) ==
    Receive(Request("GET", "/auth/token", headers, cookie, NULL, NULL, NULL, NULL))

Logout(headers, cookie) ==
    Receive(Request("POST", "/auth/logout", headers, cookie, NULL, NULL, NULL, NULL))

Status(headers, cookie) ==
    Receive(Request("GET", "/auth/status", headers, cookie, NULL, NULL, NULL, NULL))

OtherPath(headers) ==
    Receive(Request("GET", "/other", headers, <<>>, NULL, NULL, NULL, NULL))

\* The upstream answers the call of a suspended handler
UpstreamAnswers(cont, tokens) ==
    /\ last = None
    /\ BagIn(cont, inflight)
    /\ tokens \in AnswersTo(cont.sent)
    /\ Truthy(tokens.refresh_token) => tokens.refresh_token = RefreshTokenNames[uuids + 1]
    /\ LET uuid == SessionNames[uuids + 1]
           r == resume(cont, tokens, store, now, uuid)
       IN  /\ uuid \in DOMAIN r.store => uuids < MaxSessions
           /\ store' = r.store
           /\ uuids' = IF uuid \in DOMAIN r.store THEN uuids + 1 ELSE uuids
           /\ inflight' = inflight (-) SetToBag({cont})
           /\ last' = Some(Exchange(
                        IF cont.fn = "handleCallback" THEN "/auth/callback" ELSE "/auth/token",
                        None, cont.request, cont.sessionId, cont.state,
                        r.resp[1], Some(cont.sent), Some(tokens)))
           /\ issued' = Issue(r.resp[1], now)
           /\ revoked' = IF /\ cont.fn = "handleToken" /\ tokens.error = "invalid_grant"
                            /\ cont.sessionId \in DOMAIN store
                         THEN revoked \cup {[id |-> cont.sessionId, by |-> "invalid_grant"]}
                         ELSE revoked
           /\ UNCHANGED <<now, ticks>>

\* The response leaves the worker.  `last` only records what was sent, so the
\* next event is taken up once it is cleared.
Deliver ==
    /\ last # None
    /\ last' = None
    /\ UNCHANGED <<store, now, ticks, uuids, inflight, issued, revoked>>

\* Time passes; the store drops the keys whose expiration is reached
Tick ==
    /\ last = None
    /\ ticks < MaxTicks
    /\ ticks' = ticks + 1
    /\ now' = now + TickPlan[ticks + 1] * SecondsPerDay
    /\ store' = KVexpire(store, now')
    /\ UNCHANGED <<uuids, inflight, last, issued, revoked>>

Next ==
    \/ \E p \in PreflightCases : Preflight(p[1], p[2])
    \/ \E h \in HeaderCases, o \in OriginParams : Login(h, o)
    \/ \E c \in CodeParams, e \in ErrorParams, s \in StateParams : Callback(c, e, s)
    \/ \E h \in TokenHeaderCases, c \in Cookies : Token(h, c)
    \/ \E h \in TokenHeaderCases, c \in Cookies : Logout(h, c)
    \/ \E h \in TokenHeaderCases, c \in Cookies : Status(h, c)
    \/ \E h \in SessionHeaderCases : OtherPath(h)
    \/ \E cont \in BagToSet(inflight), tokens \in CodeAnswers : UpstreamAnswers(cont, tokens)
    \/ \E cont \in BagToSet(inflight), tokens \in RefreshAnswers : UpstreamAnswers(cont, tokens)
    \/ Deliver
    \/ Tick

Spec == Init /\ [][Next]_vars

----------------------------------------------------------------------------
(* Reading an exchange *)

Days(n) == n * SecondsPerDay

\* The ids that can be a key of the store
SessionIds == {SessionNames[i] : i \in 1..MaxSessions}

Revoked == {r.id : r \in revoked}
RevokedBy(cause) == {r.id : r \in {x \in revoked : x.by = cause}}

Completed == last # None
Ex == last[1]

\* the worker produced a Response (its promise did not reject)
Answered(ex) == ex.response.type = "response"

HasBody(ex) == ex.response.body # None
BodyHas(ex, field) == HasBody(ex) /\ field \in DOMAIN ex.response.body[1]

\* the `code` of a JSON error body, NULL when there is none
Code(ex) == IF BodyHas(ex, "code") THEN ex.response.body[1].code ELSE NULL

SetsCookie(ex) == ex.response.headers.SetCookie # None
ClearsCookie(ex) ==
    /\ SetsCookie(ex)
    /\ ex.response.headers.SetCookie[1].name = "session"
    /\ ex.response.headers.SetCookie[1].value = ""
    /\ ex.response.headers.SetCookie[1].MaxAge = 0

\* the upstream was called in the exchange, and what it returned
CalledUpstream(ex) == ex.sent # None
UpstreamReturned(ex) == ex.answer # None /\ ~ex.answer[1].threw
UpstreamError(ex) == IF UpstreamReturned(ex) THEN ex.answer[1].error ELSE NULL

ReportsAuthenticated(ex, b) ==
    /\ Answered(ex)
    /\ ex.response.status = 200
    /\ BodyHas(ex, "authenticated")
    /\ ex.response.body[1].authenticated = b

\* The value of the cookie named "session" in a Cookie header, NULL when the
\* header holds no such cookie or holds it with an empty value.
RECURSIVE NamedSession(_, _)
NamedSession(cookie, i) ==
    IF i > Len(cookie) THEN NULL
    ELSE IF cookie[i][1] = "session" /\ cookie[i][2] # ""
         THEN cookie[i][2]
         ELSE NamedSession(cookie, i + 1)

SessionCookie(request) == NamedSession(request.cookie, 1)

\* A step in which an exchange of the endpoint completes
Completes(endpoint) ==
    /\ last = None
    /\ last' # None
    /\ last'[1].endpoint = endpoint

----------------------------------------------------------------------------
(* C1 *)

\* C1: /auth/token with a stored session whose refresh the upstream answers
\* with invalid_grant is answered 401 REFRESH_FAILED, the record of the
\* session is gone from the store and the same response clears the cookie;
\* a later /auth/status with that session id reports authenticated:false.
C1_RefreshFailed ==
    Completed =>
        /\ (Ex.endpoint = "/auth/token" /\ UpstreamError(Ex) = "invalid_grant") =>
                /\ Answered(Ex)
                /\ Ex.response.status = 401
                /\ Code(Ex) = "REFRESH_FAILED"
                /\ Ex.sessionId \notin DOMAIN store
                /\ ClearsCookie(Ex)
        /\ (Ex.endpoint = "/auth/status" /\ Ex.sessionId \in RevokedBy("invalid_grant")) =>
                ReportsAuthenticated(Ex, FALSE)

\* What holds of C1 on the code: the same, for the requests the worker answers.
\* The record is deleted in every case.
C1_UnlessRejected ==
    Completed =>
        /\ (Ex.endpoint = "/auth/token" /\ UpstreamError(Ex) = "invalid_grant") =>
                /\ Ex.sessionId \notin DOMAIN store
                /\ Answered(Ex) =>
                    /\ Ex.response.status = 401
                    /\ Code(Ex) = "REFRESH_FAILED"
                    /\ ClearsCookie(Ex)
        /\ (Ex.endpoint = "/auth/status" /\ Ex.sessionId \in RevokedBy("invalid_grant")
            /\ Answered(Ex)) =>
                ReportsAuthenticated(Ex, FALSE)

----------------------------------------------------------------------------
(* C2 *)

\* C2: /auth/token without a session cookie is answered 401 NO_SESSION; with
\* a session cookie whose key is not in the store, 401 SESSION_EXPIRED; in
\* both cases the upstream is not called and the store is not changed.
C2_NoSessionOrExpired ==
    [][ (Completes("/auth/token") /\ last'[1].request # None) =>
            LET ex == last'[1]
                sid == SessionCookie(ex.request[1])
            IN  /\ sid = NULL =>
                    /\ Answered(ex) /\ ex.response.status = 401 /\ Code(ex) = "NO_SESSION"
                    /\ ~CalledUpstream(ex) /\ store' = store
                /\ (sid # NULL /\ sid \notin DOMAIN store) =>
                    /\ Answered(ex) /\ ex.response.status = 401 /\ Code(ex) = "SESSION_EXPIRED"
                    /\ ~CalledUpstream(ex) /\ store' = store
      ]_vars

\* What holds of C2 on the code: the same for the requests the worker answers,
\* with the session id as getSessionId reads it from the Cookie header.
C2_UnlessRejected ==
    [][ (Completes("/auth/token") /\ last'[1].request # None) =>
            LET ex == last'[1]
                sid == ex.sessionId
            IN  /\ ~CalledUpstream(ex) /\ store' = store
                /\ (sid = NULL /\ Answered(ex)) =>
                    ex.response.status = 401 /\ Code(ex) = "NO_SESSION"
                /\ (sid # NULL /\ sid \notin DOMAIN store /\ Answered(ex)) =>
                    ex.response.status = 401 /\ Code(ex) = "SESSION_EXPIRED"
      ]_vars

----------------------------------------------------------------------------
(* C3 *)

\* C3: /auth/token with a stored session whose refresh the upstream answers
\* with an error other than invalid_grant is answered 500 REFRESH_ERROR; the
\* request leaves the store as it is and its response carries no Set-Cookie.
C3_RefreshError ==
    [][ (Completes("/auth/token") /\ UpstreamError(last'[1]) \notin {NULL, "invalid_grant"}) =>
            LET ex == last'[1]
            IN  /\ Answered(ex) /\ ex.response.status = 500 /\ Code(ex) = "REFRESH_ERROR"
                /\ store' = store
                /\ ~SetsCookie(ex)
      ]_vars

\* What holds of C3 on the code: the store and the cookie are left alone in
\* every case, and the requests the worker answers get 500 REFRESH_ERROR.
C3_UnlessRejected ==
    [][ (Completes("/auth/token") /\ UpstreamError(last'[1]) \notin {NULL, "invalid_grant"}) =>
            LET ex == last'[1]
            IN  /\ store' = store
                /\ ~SetsCookie(ex)
                /\ Answered(ex) => ex.response.status = 500 /\ Code(ex) = "REFRESH_ERROR"
      ]_vars

----------------------------------------------------------------------------
(* C4 *)

\* the Location of a redirect: its origin, and the value of a query parameter
Redirects(ex) == Answered(ex) /\ ex.response.status = 302 /\ ex.response.headers.Location # None
LocationOf(ex) == ex.response.headers.Location[1]

RECURSIVE QueryValue(_, _, _)
QueryValue(query, key, i) ==
    IF i > Len(query) THEN NULL
    ELSE IF query[i][1] = key THEN query[i][2] ELSE QueryValue(query, key, i + 1)

Param(ex, key) == QueryValue(LocationOf(ex).query, key, 1)

RedirectsToApp(ex, auth) ==
    /\ Redirects(ex)
    /\ Includes(getAllowedOrigins, LocationOf(ex).base)
    /\ Param(ex, "auth") = auth

\* the upstream answered the code exchange with no error and a refresh token
CodeExchanged(ex) ==
    /\ ex.endpoint = "/auth/callback"
    /\ UpstreamReturned(ex)
    /\ ~Truthy(ex.answer[1].error)
    /\ Truthy(ex.answer[1].refresh_token)

\* C4: a /auth/callback whose code exchange returns no error and a refresh
\* token adds exactly one record to the store, under a key that was not in it
\* and holding that refresh token, leaves every other record as it was, and
\* answers 302 to the app origin with ?auth=success and a Set-Cookie whose
\* session value is that key.
C4_CallbackCreatesSession ==
    [][ (Completes("/auth/callback") /\ CodeExchanged(last'[1])) =>
            LET ex == last'[1]
                added == DOMAIN store' \ DOMAIN store
            IN  /\ Cardinality(added) = 1
                /\ \A k \in added :
                    /\ k \notin DOMAIN issued
                    /\ JSONparse(store'[k].value).refresh_token = ex.answer[1].refresh_token
                    /\ SetsCookie(ex)
                    /\ ex.response.headers.SetCookie[1].name = "session"
                    /\ ex.response.headers.SetCookie[1].value = k
                    /\ k # ""
                /\ \A k \in DOMAIN store : k \in DOMAIN store' /\ store'[k] = store[k]
                /\ RedirectsToApp(ex, "success")
      ]_vars

\* A second session was created while the first is in the store.
C4_Witness ==
    /\ Completed
    /\ CodeExchanged(Ex)
    /\ SetsCookie(Ex)
    /\ Cardinality(DOMAIN store) = 2
    /\ Ex.response.headers.SetCookie[1].value \in DOMAIN store

----------------------------------------------------------------------------
(* C5 *)

\* C5: a /auth/callback that does not fully succeed creates no record, sets no
\* cookie and redirects to the app origin with auth=error: with an error
\* parameter or without a code it calls no upstream and leaves the store alone
\* (message no_code when the code is missing); when the code exchange returns
\* an error the message is the provider's error; when it returns no refresh
\* token the message is no_refresh_token.
C5_CallbackFailure ==
    [][ (Completes("/auth/callback") /\ ~CodeExchanged(last'[1])) =>
            LET ex == last'[1]
            IN  /\ store' = store
                /\ ~SetsCookie(ex)
                /\ RedirectsToApp(ex, "error")
                /\ ex.request # None =>
                    /\ ~CalledUpstream(ex)
                    /\ ~Truthy(ex.request[1].q_error) => Param(ex, "message") = "no_code"
                /\ Truthy(UpstreamError(ex)) =>
                    Param(ex, "message") \in
                        {encodeURIComponent(ex.answer[1].error),
                         encodeURIComponent(ex.answer[1].error_description)}
                /\ (UpstreamReturned(ex) /\ ~Truthy(UpstreamError(ex))) =>
                    Param(ex, "message") = "no_refresh_token"
      ]_vars

\* What holds of C5 on the code: no record and no cookie in every case, and
\* the error redirect whenever the upstream call returns.
C5_UnlessRejected ==
    [][ (Completes("/auth/callback") /\ ~CodeExchanged(last'[1])) =>
            LET ex == last'[1]
            IN  /\ store' = store
                /\ ~SetsCookie(ex)
                /\ Answered(ex) =>
                    /\ RedirectsToApp(ex, "error")
                    /\ ex.request # None =>
                        /\ ~CalledUpstream(ex)
                        /\ ~Truthy(ex.request[1].q_error) => Param(ex, "message") = "no_code"
                    /\ Truthy(UpstreamError(ex)) =>
                        Param(ex, "message") \in
                            {encodeURIComponent(ex.answer[1].error),
                             encodeURIComponent(ex.answer[1].error_description)}
                    /\ (UpstreamReturned(ex) /\ ~Truthy(UpstreamError(ex))) =>
                        Param(ex, "message") = "no_refresh_token"
      ]_vars

----------------------------------------------------------------------------
(* C6 *)

\* C6: /auth/logout, for any cookie, is answered 200 {success: true} with the
\* cookie cleared; after it the store holds no record under the session id of
\* the cookie; the same request sent again gets the same response and leaves
\* the store as the first left it.
C6_LogoutIdempotent ==
    [][ Completes("/auth/logout") =>
            LET ex == last'[1]
                sid == SessionCookie(ex.request[1])
                again == fetch(ex.request[1], store', now')
            IN  /\ Answered(ex)
                /\ ex.response.status = 200
                /\ BodyHas(ex, "success") /\ ex.response.body[1].success = TRUE
                /\ ClearsCookie(ex)
                /\ sid # NULL => sid \notin DOMAIN store'
                /\ again.resp = Some(ex.response)
                /\ again.store = store'
      ]_vars

\* What holds of C6 on the code: the record is deleted and a second call
\* changes nothing in every case; the requests the worker answers get
\* 200 {success: true} and the cleared cookie.
C6_UnlessRejected ==
    [][ Completes("/auth/logout") =>
            LET ex == last'[1]
                sid == SessionCookie(ex.request[1])
                again == fetch(ex.request[1], store', now')
            IN  /\ sid # NULL => sid \notin DOMAIN store'
                /\ again.resp = Some(ex.response)
                /\ again.store = store'
                /\ Answered(ex) =>
                    /\ ex.response.status = 200
                    /\ BodyHas(ex, "success") /\ ex.response.body[1].success = TRUE
                    /\ ClearsCookie(ex)
      ]_vars

----------------------------------------------------------------------------
(* C7 *)

\* C7: /auth/status calls no upstream, leaves the store as it is and sets no
\* cookie; it reports authenticated:true with the creation time of the record
\* exactly when the request carries a session cookie whose key is in the
\* store, and authenticated:false otherwise.
C7_StatusReadOnly ==
    [][ Completes("/auth/status") =>
            LET ex == last'[1]
                sid == SessionCookie(ex.request[1])
            IN  /\ ~CalledUpstream(ex)
                /\ inflight' = inflight
                /\ store' = store
                /\ ~SetsCookie(ex)
                /\ IF sid # NULL /\ sid \in DOMAIN store
                   THEN /\ ReportsAuthenticated(ex, TRUE)
                        /\ BodyHas(ex, "sessionCreated")
                        /\ ex.response.body[1].sessionCreated = JSONparse(store[sid].value).created
                   ELSE ReportsAuthenticated(ex, FALSE)
      ]_vars

\* What holds of C7 on the code: no upstream call, no write and no cookie in
\* every case; the requests the worker answers get the report, for the
\* session id as getSessionId reads it from the Cookie header.
C7_UnlessRejected ==
    [][ Completes("/auth/status") =>
            LET ex == last'[1]
                sid == ex.sessionId
            IN  /\ ~CalledUpstream(ex)
                /\ inflight' = inflight
                /\ store' = store
                /\ ~SetsCookie(ex)
                /\ Answered(ex) =>
                    IF sid # NULL /\ sid \in DOMAIN store
                    THEN /\ ReportsAuthenticated(ex, TRUE)
                         /\ BodyHas(ex, "sessionCreated")
                         /\ ex.response.body[1].sessionCreated = JSONparse(store[sid].value).created
                    ELSE ReportsAuthenticated(ex, FALSE)
      ]_vars

----------------------------------------------------------------------------
(* C8 *)

\* C8: a session created at time T expires at T + 30 days whatever requests
\* use it: while its record is in the store the expiration is T + 30 days; its
\* record can be read up to T + 29 days, unless it was revoked, and is absent
\* from T + 31 days on.
C8_AbsoluteExpiry ==
    \A s \in DOMAIN issued :
        LET T == issued[s]
        IN  /\ s \in DOMAIN store => store[s].expiration = T + SESSION_MAX_AGE
            /\ (now <= T + Days(29) /\ s \notin Revoked) => KVget(store, s, now) # None
            /\ now >= T + Days(31) => (KVget(store, s, now) = None /\ s \notin DOMAIN store)

\* A session that was never revoked is asked for 31 days after its creation.
C8_Witness ==
    /\ Completed
    /\ Ex.endpoint = "/auth/status"
    /\ Ex.sessionId \in DOMAIN issued
    /\ Ex.sessionId \notin Revoked
    /\ now >= issued[Ex.sessionId] + Days(31)
    /\ ReportsAuthenticated(Ex, FALSE)

----------------------------------------------------------------------------
(* C9 *)

\* C9: in every state, a record is in the store under a session id exactly
\* when a Set-Cookie has issued that id, fewer than 30 days ago, and neither a
\* logout nor an invalid_grant refresh has revoked it.
C9_RecordIffIssuedAndLive ==
    \A s \in SessionIds \cup {BogusId} :
        s \in DOMAIN store <=>
            /\ s \in DOMAIN issued
            /\ now < issued[s] + SESSION_MAX_AGE
            /\ s \notin Revoked

\* One session is live while another was revoked and a third state of affairs,
\* expiry, has not yet come.
C9_Witness ==
    \E s \in DOMAIN issued, r \in DOMAIN issued :
        /\ s \in DOMAIN store
        /\ r \in RevokedBy("invalid_grant")
        /\ r \notin DOMAIN store

----------------------------------------------------------------------------
(* C10 *)

\* The fields of a JSON body whose values are not strings
NonStringFields == {"expires_in", "sessionCreated", "authenticated", "success"}

BodyStrings(response) ==
    IF response.body = None THEN {}
    ELSE {response.body[1][f] : f \in DOMAIN response.body[1] \ NonStringFields}

LocationStrings(response) ==
    IF response.headers.Location = None THEN {}
    ELSE LET url == response.headers.Location[1]
         IN  {url.base} \cup {url.query[i][2] : i \in DOMAIN url.query}

CorsStrings(response) ==
    UNION {{h[i] : i \in DOMAIN h} : h \in {response.headers.AccessControlAllowOrigin,
                                            response.headers.AccessControlAllowCredentials,
                                            response.headers.AccessControlAllowMethods,
                                            response.headers.AccessControlAllowHeaders,
                                            response.headers.ContentType}}

CookieStrings(response) ==
    IF response.headers.SetCookie = None THEN {}
    ELSE {response.headers.SetCookie[1].value}

\* C10: no response holds a refresh token, in its body, its headers or its
\* redirect URL, and a session id leaves the worker only as the value of the
\* session cookie.
C10_NoCredentialLeak ==
    Completed =>
        LET response == Ex.response
            outside == BodyStrings(response) \cup LocationStrings(response)
                       \cup CorsStrings(response)
        IN  /\ (outside \cup CookieStrings(response)) \cap RefreshTokens = {}
            /\ outside \cap (SessionIds \cup DOMAIN issued) = {}

\* A refresh with the stored refresh token is answered with an access token.
C10_Witness ==
    /\ Completed
    /\ Ex.endpoint = "/auth/token"
    /\ Ex.sent # None /\ Ex.sent[1].credential \in RefreshTokens
    /\ Answered(Ex) /\ Ex.response.status = 200
    /\ BodyHas(Ex, "access_token")

----------------------------------------------------------------------------
(* C11 *)

CarriesAllowOrigin(ex) == ex.response.headers.AccessControlAllowOrigin # None
AllowOrigin(ex) == ex.response.headers.AccessControlAllowOrigin[1]

\* C11: in every response that carries Access-Control-Allow-Origin, the header
\* is the request's Origin when that is in the allow-list, the first entry of
\* the allow-list when the request's Origin is not in it, and in every case a
\* member of the allow-list.
C11_AllowOriginEchoOrFirst ==
    (Completed /\ CarriesAllowOrigin(Ex)) =>
        LET origin == Ex.headers.origin
            allowed == getAllowedOrigins
        IN  /\ Includes(allowed, origin) => AllowOrigin(Ex) = origin
            /\ (origin # NULL /\ ~Includes(allowed, origin)) => AllowOrigin(Ex) = allowed[1]
            /\ Includes(allowed, AllowOrigin(Ex))

\* What holds of C11 on the code: between the Origin header and the first
\* entry of the allow-list stands the origin of the Referer header, taken when
\* it is in the allow-list.
C11_AllowOriginValidated ==
    (Completed /\ CarriesAllowOrigin(Ex)) =>
        LET origin == Ex.headers.origin
            referer == Ex.headers.referer
            allowed == getAllowedOrigins
        IN  /\ AllowOrigin(Ex) =
                    IF Includes(allowed, origin) THEN origin
                    ELSE IF referer # NULL /\ Includes(allowed, UrlOrigin(referer))
                         THEN UrlOrigin(referer)
                         ELSE allowed[1]
            /\ Includes(allowed, AllowOrigin(Ex))

\* A response to a request whose Origin is not allowed and whose Referer is.
C11_Witness ==
    /\ Completed
    /\ CarriesAllowOrigin(Ex)
    /\ Ex.headers.origin = EvilOrigin
    /\ Ex.headers.referer = "https://alt.example/page"
    /\ AllowOrigin(Ex) = "https://alt.example"

----------------------------------------------------------------------------
(* C12 *)

\* the CORS headers of corsResponse, credentials included
CarriesCors(ex) ==
    /\ CarriesAllowOrigin(ex)
    /\ Includes(getAllowedOrigins, AllowOrigin(ex))
    /\ ex.response.headers.AccessControlAllowCredentials = Some("true")

\* C12: every response the worker returns, whatever the path, the method and
\* the outcome, carries the CORS headers, Access-Control-Allow-Credentials:
\* true among them.
C12_CorsOnEveryResponse ==
    (Completed /\ Answered(Ex)) => CarriesCors(Ex)

\* What holds of C12 on the code: the responses of the preflight and of
\* /auth/token, /auth/logout and /auth/status carry the CORS headers; the
\* redirects of /auth/login and /auth/callback and the 404 carry none.
C12_CorsWhereBuilt ==
    (Completed /\ Answered(Ex)) =>
        (CarriesCors(Ex) <=>
            Ex.endpoint \in {"OPTIONS", "/auth/token", "/auth/logout", "/auth/status"})

----------------------------------------------------------------------------
(* C13 *)

UpstreamThrew(ex) == ex.answer # None /\ ex.answer[1].threw

\* the generic answer of the catch clause of fetch
GenericError(ex) ==
    /\ Answered(ex)
    /\ ex.response.status = 500
    /\ BodyHas(ex, "error")
    /\ ex.response.body[1].error = "Internal server error"
    /\ CarriesCors(ex)

\* C13: no request ends in an unhandled fault: every request gets a response,
\* and a request whose handling throws gets the generic 500 with CORS headers.
C13_NoUnhandledFault ==
    Completed =>
        /\ Answered(Ex)
        /\ UpstreamThrew(Ex) => GenericError(Ex)

\* What holds of C13 on the code: a request ends without a response exactly
\* when the upstream call of its handler threw or when its handler came to
\* parse a malformed Referer header.
C13_FaultsEscape ==
    Completed =>
        (~Answered(Ex) <=>
            \/ UpstreamThrew(Ex)
            \/ /\ Ex.headers.referer = MalformedUrl
               /\ ~Includes(getAllowedOrigins, Ex.headers.origin)
               /\ \/ Ex.endpoint \in {"OPTIONS", "/auth/token", "/auth/logout", "/auth/status"}
                  \/ /\ Ex.endpoint = "/auth/login"
                     /\ ~Includes(getAllowedOrigins, Ex.request[1].q_origin))

----------------------------------------------------------------------------
(* C14 *)

\* C14: whatever the state parameter and the outcome of /auth/callback, the
\* origin of the Location it redirects to is the state when the state is in
\* the allow-list and the first entry of the allow-list otherwise.
C14_CallbackRedirectOrigin ==
    (Completed /\ Ex.endpoint = "/auth/callback" /\ Ex.response.headers.Location # None) =>
        LET allowed == getAllowedOrigins
        IN  /\ LocationOf(Ex).base =
                    IF Includes(allowed, Ex.state) THEN Ex.state ELSE allowed[1]
            /\ Includes(allowed, LocationOf(Ex).base)

\* A code exchange that succeeded with a state outside the allow-list.
C14_Witness ==
    /\ Completed
    /\ CodeExchanged(Ex)
    /\ Ex.state = EvilOrigin
    /\ Redirects(Ex)
    /\ LocationOf(Ex).base = getAllowedOrigins[1]

----------------------------------------------------------------------------
(* C15 *)

\* the origin a Referer header names, NULL when there is none to read
RefererOrigin(referer) ==
    IF referer = NULL \/ ~UrlParses(referer) THEN NULL ELSE UrlOrigin(referer)

\* the first candidate in the allow-list, the first entry of the list if none
RECURSIVE FirstAllowed(_, _)
FirstAllowed(candidates, i) ==
    IF i > Len(candidates) THEN getAllowedOrigins[1]
    ELSE IF Includes(getAllowedOrigins, candidates[i]) THEN candidates[i]
         ELSE FirstAllowed(candidates, i + 1)

\* the origin /auth/login is to resolve for a request
LoginOrigin(request) ==
    FirstAllowed(<<request.q_origin, request.origin, RefererOrigin(request.referer)>>, 1)

\* C15: /auth/login answers 302 to the provider with state equal to the first
\* of the origin parameter, the Origin header and the Referer origin that is
\* in the allow-list, or to the first entry of the allow-list when none is;
\* it touches neither the store nor the upstream.
C15_LoginResolvesOrigin ==
    [][ Completes("/auth/login") =>
            LET ex == last'[1]
            IN  /\ Redirects(ex)
                /\ LocationOf(ex).base = AuthEndpoint
                /\ Param(ex, "state") = LoginOrigin(ex.request[1])
                /\ Includes(getAllowedOrigins, Param(ex, "state"))
                /\ ~CalledUpstream(ex)
                /\ store' = store /\ inflight' = inflight
      ]_vars

\* What holds of C15 on the code: the same whenever the worker answers; a
\* malformed Referer that getRequestOrigin comes to parse leaves the request
\* without a response.
C15_UnlessRejected ==
    [][ Completes("/auth/login") =>
            LET ex == last'[1]
            IN  /\ ~CalledUpstream(ex)
                /\ store' = store /\ inflight' = inflight
                /\ Answered(ex) =>
                    /\ Redirects(ex)
                    /\ LocationOf(ex).base = AuthEndpoint
                    /\ Param(ex, "state") = LoginOrigin(ex.request[1])
                    /\ Includes(getAllowedOrigins, Param(ex, "state"))
      ]_vars

----------------------------------------------------------------------------
(* C16 *)

\* the upstream answered the refresh without an error
Refreshed(ex) ==
    /\ ex.endpoint = "/auth/token"
    /\ UpstreamReturned(ex)
    /\ ~Truthy(ex.answer[1].error)

\* the 200 of /auth/token, carrying what the provider returned
ReturnsAccessToken(ex) ==
    /\ Answered(ex)
    /\ ex.response.status = 200
    /\ BodyHas(ex, "access_token") /\ BodyHas(ex, "expires_in")
    /\ ex.response.body[1].access_token = ex.answer[1].access_token
    /\ ex.response.body[1].expires_in = ex.answer[1].expires_in

\* C16: /auth/token whose refresh the upstream answers without an error is
\* answered 200 with the provider's access_token and expires_in, leaves the
\* store as it is and sets no cookie.
C16_TokenSuccess ==
    [][ (Completes("/auth/token") /\ Refreshed(last'[1])) =>
            LET ex == last'[1]
            IN  /\ ReturnsAccessToken(ex)
                /\ store' = store
                /\ ~SetsCookie(ex)
      ]_vars

\* What holds of C16 on the code: the store and the cookie are left alone in
\* every case, and the requests the worker answers get the 200.
C16_UnlessRejected ==
    [][ (Completes("/auth/token") /\ Refreshed(last'[1])) =>
            LET ex == last'[1]
            IN  /\ store' = store
                /\ ~SetsCookie(ex)
                /\ Answered(ex) => ReturnsAccessToken(ex)
      ]_vars

----------------------------------------------------------------------------
(* C17 *)

Endpoints == {"/auth/login", "/auth/callback", "/auth/token", "/auth/logout", "/auth/status"}

\* a step in which a request is answered in the segment it arrived in
AnswersAtOnce == last = None /\ last' # None /\ last'[1].request # None

\* C17: an OPTIONS request is answered 204 with CORS headers whatever its
\* path; any other request to a path that is no endpoint is answered 404 and
\* reaches neither the store nor the upstream.
C17_Routing ==
    [][ AnswersAtOnce =>
            LET ex == last'[1]
                request == ex.request[1]
            IN  /\ request.method = "OPTIONS" =>
                    /\ Answered(ex) /\ ex.response.status = 204 /\ CarriesCors(ex)
                /\ (request.method # "OPTIONS" /\ request.path \notin Endpoints) =>
                    /\ Answered(ex) /\ ex.response.status = 404
                    /\ ~CalledUpstream(ex)
                    /\ store' = store /\ inflight' = inflight
      ]_vars

\* What holds of C17 on the code: the 404 in every case, and the 204 with CORS
\* headers unless corsResponse throws on the Referer header.
C17_UnlessRejected ==
    [][ AnswersAtOnce =>
            LET ex == last'[1]
                request == ex.request[1]
            IN  /\ (request.method = "OPTIONS" /\ Answered(ex)) =>
                    /\ ex.response.status = 204 /\ CarriesCors(ex)
                /\ request.method = "OPTIONS" =>
                    /\ ~CalledUpstream(ex)
                    /\ store' = store /\ inflight' = inflight
                /\ (request.method # "OPTIONS" /\ request.path \notin Endpoints) =>
                    /\ Answered(ex) /\ ex.response.status = 404
                    /\ ~CalledUpstream(ex)
                    /\ store' = store /\ inflight' = inflight
      ]_vars

----------------------------------------------------------------------------
(* C18 *)

\* another /auth/token for the session of `ex` is waiting for the upstream in
\* the bag of suspended handlers
OtherRefreshIn(bag, ex) ==
    \E c \in BagToSet(bag) : c.fn = "handleToken" /\ c.sessionId = ex.sessionId

\* C18: when a /auth/token whose refresh succeeded completes while another
\* /auth/token for the same session is still waiting for the upstream, it is
\* answered 200 with an access token, the other request keeps waiting for its
\* own answer, and the store is as it was.
C18_ConcurrentRefresh ==
    [][ (Completes("/auth/token") /\ Refreshed(last'[1]) /\ OtherRefreshIn(inflight', last'[1])) =>
            LET ex == last'[1]
            IN  /\ ReturnsAccessToken(ex)
                /\ store' = store
                /\ BagCardinality(inflight') = BagCardinality(inflight) - 1
      ]_vars

\* What holds of C18 on the code: the two requests do not affect each other,
\* and each gets its 200 unless its own Referer header makes corsResponse throw.
C18_UnlessRejected ==
    [][ (Completes("/auth/token") /\ Refreshed(last'[1]) /\ OtherRefreshIn(inflight', last'[1])) =>
            LET ex == last'[1]
            IN  /\ Answered(ex) => ReturnsAccessToken(ex)
                /\ ~Answered(ex) =>
                    (ex.headers.referer = MalformedUrl
                     /\ ~Includes(getAllowedOrigins, ex.headers.origin))
                /\ store' = store
                /\ BagCardinality(inflight') = BagCardinality(inflight) - 1
      ]_vars

\* One of two concurrent refreshes of a stored session has got its 200 while
\* the other is still waiting.
C18_Witness ==
    /\ Completed
    /\ Refreshed(Ex)
    /\ ReturnsAccessToken(Ex)
    /\ OtherRefreshIn(inflight, Ex)
    /\ Ex.sessionId \in DOMAIN store

----------------------------------------------------------------------------
(* C19 *)

\* the keys a step adds to the store and those it removes from it
Added == DOMAIN store' \ DOMAIN store
Removed == DOMAIN store \ DOMAIN store'

\* a step that is the clock reaching the expiration of key k
Expires(k) == ticks' # ticks /\ store[k].expiration <= now'

\* the step creates key k by a code exchange that succeeded
CreatedByCallback(k) ==
    /\ Completes("/auth/callback")
    /\ CodeExchanged(last'[1])
    /\ k \notin DOMAIN issued
    /\ Truthy(JSONparse(store'[k].value).refresh_token)

\* C19: a record is added to the store only by a successful /auth/callback,
\* one at a time, under a new key and with a non-empty refresh token; a record
\* in the store is never changed; it is removed only by the clock reaching its
\* expiration, by a /auth/logout whose session cookie is its key or by a
\* /auth/token for its key that the upstream answers with invalid_grant.
C19_StoreWriters ==
    [][ /\ \A k \in DOMAIN store \cap DOMAIN store' : store'[k] = store[k]
        /\ Cardinality(Added) <= 1
        /\ \A k \in Added : CreatedByCallback(k)
        /\ \A k \in Removed :
            \/ Expires(k)
            \/ /\ Completes("/auth/logout")
               /\ SessionCookie(last'[1].request[1]) = k
            \/ /\ Completes("/auth/token")
               /\ UpstreamError(last'[1]) = "invalid_grant"
               /\ last'[1].sessionId = k
      ]_vars

\* What holds of C19 on the code: the same with the session id of a request
\* being what getSessionId reads from its Cookie header, which need not be the
\* value of the cookie named session.
C19_AsRead ==
    [][ /\ \A k \in DOMAIN store \cap DOMAIN store' : store'[k] = store[k]
        /\ Cardinality(Added) <= 1
        /\ \A k \in Added : CreatedByCallback(k)
        /\ \A k \in Removed :
            \/ Expires(k)
            \/ /\ Completes("/auth/logout")
               /\ last'[1].sessionId = k
            \/ /\ Completes("/auth/token")
               /\ UpstreamError(last'[1]) = "invalid_grant"
               /\ last'[1].sessionId = k
      ]_vars

----------------------------------------------------------------------------
(* C20 *)

\* The sessions a completed /auth/logout has removed from the store.  A
\* request that arrives in a step finds them in the unprimed state: it starts
\* after the logout has completed.
LoggedOut == RevokedBy("logout")

\* C20: a /auth/token that arrives with the cookie of a logged-out session is
\* answered 401 SESSION_EXPIRED and calls no upstream, a /auth/status that
\* arrives with it reports authenticated:false, and no step puts a record
\* under the id of a logged-out session again.
C20_AfterLogout ==
    [][ /\ \A s \in LoggedOut : s \notin DOMAIN store'
        /\ \A c \in BagToSet(inflight') :
                (c.fn = "handleToken" /\ c.sessionId \in LoggedOut) => BagIn(c, inflight)
        /\ (AnswersAtOnce /\ SessionCookie(last'[1].request[1]) \in LoggedOut) =>
            LET ex == last'[1]
            IN  /\ ex.endpoint = "/auth/token" =>
                    /\ Answered(ex) /\ ex.response.status = 401
                    /\ Code(ex) = "SESSION_EXPIRED"
                    /\ ~CalledUpstream(ex)
                /\ ex.endpoint = "/auth/status" => ReportsAuthenticated(ex, FALSE)
      ]_vars

\* What holds of C20 on the code: no record comes back and no refresh is
\* started for a logged-out session, and the requests the worker answers get
\* 401 SESSION_EXPIRED and authenticated:false.
C20_UnlessRejected ==
    [][ /\ \A s \in LoggedOut : s \notin DOMAIN store'
        /\ \A c \in BagToSet(inflight') :
                (c.fn = "handleToken" /\ c.sessionId \in LoggedOut) => BagIn(c, inflight)
        /\ (AnswersAtOnce /\ last'[1].sessionId \in LoggedOut) =>
            LET ex == last'[1]
            IN  /\ ex.endpoint \in {"/auth/token", "/auth/status"} => ~CalledUpstream(ex)
                /\ (ex.endpoint = "/auth/token" /\ Answered(ex)) =>
                    ex.response.status = 401 /\ Code(ex) = "SESSION_EXPIRED"
                /\ (ex.endpoint = "/auth/status" /\ Answered(ex)) =>
                    ReportsAuthenticated(ex, FALSE)
      ]_vars
====
